---- MODULE Spec2Model ----
(***************************************************************************)
(* Account REST API Service (service/routes.py).                           *)
(*                                                                         *)
(* One step of the model is one HTTP request handled to completion: the    *)
(* routing of the request by method and path, the handler's body, and the  *)
(* response that leaves the application.  The state is the Account table,  *)
(* its id sequence, the HTTPS switch, and the last request and response.   *)
(***************************************************************************)
EXTENDS Integers, Sequences, FiniteSets, TLC

VARIABLES
    rows,         \* the Account table: id -> stored fields
    id_seq,       \* the last id the table's auto-increment key handed out
    force_https,  \* talisman.force_https
    request,      \* the request handled last
    response      \* the response it got

vars == <<rows, id_seq, force_https, request, response>>

----------------------------------------------------------------------------
(* Bounds and input domains *)

\* at most this many accounts are ever created
MaxAccounts == 2

\* Python's None: an absent header, an absent optional field
None == "None"
\* a key that the JSON object does not carry
Absent == "Absent"

Names == {"John Doe"}
Emails == {"john@example.com"}
Addresses == {"1 Main St"}
Phones == {"555-0100"}
\* dates, as the day of January 2024
Dates == {1, 2}

\* ids a path /accounts/<int:id> can carry (0 is never a stored id)
PathIds == 0 .. MaxAccounts

Methods == {"GET", "POST", "PUT", "DELETE"}
ContentTypes == {None, "application/json", "application/json; charset=utf-8", "text/html"}

----------------------------------------------------------------------------
(* Dates and their ISO strings *)

isoformat(d) == "2024-01-0" \o ToString(d)

IsoStrings == {isoformat(d) : d \in Dates}

fromisoformat(s) == CHOOSE d \in Dates : isoformat(d) = s

----------------------------------------------------------------------------
(* Request bodies *)

\* a JSON object with any of the keys of an Account; the "id" key, a number, is
\* held as <<>> when the object does not carry it and as <<n>> when it does
ObjectBodies ==
    [kind : {"object"},
     id : {<<>>, <<1>>},
     name : Names \cup {Absent},
     email : Emails \cup {Absent},
     address : Addresses \cup {Absent},
     phone_number : Phones \cup {Absent},
     date_joined : IsoStrings \cup {Absent}]

NoFields(k) ==
    [kind |-> k, id |-> <<>>, name |-> Absent, email |-> Absent,
     address |-> Absent, phone_number |-> Absent, date_joined |-> Absent]

\* a JSON array, bytes that are no JSON at all, and no body
Bodies == ObjectBodies \cup {NoFields("array"), NoFields("malformed")}

NoBody == NoFields("none")

----------------------------------------------------------------------------
(* Entity Mapper: the Account model (service/models.py) *)

\* Account(): an entity with nothing set yet
NewAccount ==
    [id |-> None, name |-> None, email |-> None, address |-> None,
     phone_number |-> None, date_joined |-> None]

\* the columns of a row, the primary key apart
Fields(account) ==
    [name |-> account.name, email |-> account.email, address |-> account.address,
     phone_number |-> account.phone_number, date_joined |-> account.date_joined]

\* the entity of the row stored under id
Entity(row, id) ==
    [id |-> id, name |-> row.name, email |-> row.email, address |-> row.address,
     phone_number |-> row.phone_number, date_joined |-> row.date_joined]

\* account.deserialize(data): populates the fields from a mapping, and fails on
\* a body that is no mapping or lacks a required field; the id is not read
deserialize(account, data, today) ==
    IF data.kind # "object"
    THEN [ok |-> FALSE, account |-> account,
          error |-> "Invalid Account: body of request contained bad or no data"]
    ELSE IF data.name = Absent
    THEN [ok |-> FALSE, account |-> account, error |-> "Invalid Account: missing name"]
    ELSE IF data.email = Absent
    THEN [ok |-> FALSE, account |-> account, error |-> "Invalid Account: missing email"]
    ELSE IF data.address = Absent
    THEN [ok |-> FALSE, account |-> account, error |-> "Invalid Account: missing address"]
    ELSE [ok |-> TRUE,
          account |->
              [account EXCEPT
                  !.name = data.name,
                  !.email = data.email,
                  !.address = data.address,
                  !.phone_number =
                      IF data.phone_number = Absent THEN None ELSE data.phone_number,
                  !.date_joined =
                      IF data.date_joined = Absent
                      THEN today
                      ELSE fromisoformat(data.date_joined)],
          error |-> ""]

\* account.serialize(): a flat mapping, the date as an ISO string
serialize(account) ==
    [id |-> account.id, name |-> account.name, email |-> account.email,
     address |-> account.address, phone_number |-> account.phone_number,
     date_joined |-> isoformat(account.date_joined)]

\* account.create(): the table assigns the next id of its sequence and
\* stores the row
create(table, seq, account) ==
    LET new_id == seq + 1
    IN [rows |-> [i \in DOMAIN table \cup {new_id} |->
                     IF i = new_id THEN Fields(account) ELSE table[i]],
        id_seq |-> new_id,
        account |-> [account EXCEPT !.id = new_id]]

\* Account.find(id): the entity of that primary key, or not found
find(table, id) ==
    IF id \in DOMAIN table
    THEN [found |-> TRUE, account |-> Entity(table[id], id)]
    ELSE [found |-> FALSE, account |-> NewAccount]

\* account.update(): writes the fields over the row matched by the id, and
\* fails when there is no such row
update(table, account) ==
    IF account.id \in DOMAIN table
    THEN [ok |-> TRUE, rows |-> [table EXCEPT ![account.id] = Fields(account)]]
    ELSE [ok |-> FALSE, rows |-> table]

----------------------------------------------------------------------------
(* What a handler hands back *)

\* the calls that reach the persistence store
PersistenceCalls == {"Account.find", "Account.create", "Account.update"}
\* the calls that change an entity or a row
MutatingCalls == {"Account.deserialize", "Account.create", "Account.update"}

\* a handler's return value, with the table it leaves and the calls it made
Result(status, body, location, table, seq, calls) ==
    [status |-> status, body |-> body, location |-> location,
     rows |-> table, id_seq |-> seq, calls |-> calls]

\* abort(status, message): the request ends here, nothing is written
abort(status, message, table, seq, calls) ==
    Result(status, [message |-> message], None, table, seq, calls)

\* request.get_json() on a body that is no JSON ends the request with 400
get_json_fails(req) == req.body.kind = "malformed"

NotFoundMessage(id) == "Account with id '" \o ToString(id) \o "' was not found."

----------------------------------------------------------------------------
(* HTTP status codes (service/common/status.py) *)

HTTP_200_OK == 200
HTTP_201_CREATED == 201
HTTP_204_NO_CONTENT == 204
HTTP_400_BAD_REQUEST == 400
HTTP_404_NOT_FOUND == 404
HTTP_415_UNSUPPORTED_MEDIA_TYPE == 415

----------------------------------------------------------------------------
(* Resource Handler: the routes of service/routes.py *)

\* check_content_type that lets a request without the header through
check_content_type_absent_ok(req, media_type) ==
    req.content_type = None \/ req.content_type = media_type

\* check_content_type(media_type): TRUE when it returns, FALSE when it aborts
check_content_type(req, media_type) ==
    req.content_type # None /\ req.content_type = media_type

UnsupportedMediaType(media_type, table, seq) ==
    abort(HTTP_415_UNSUPPORTED_MEDIA_TYPE, "Content-Type must be " \o media_type,
          table, seq, <<>>)

\* GET /health
health(table, seq) ==
    Result(HTTP_200_OK, [status |-> "OK"], None, table, seq, <<>>)

\* GET /
index(table, seq) ==
    Result(HTTP_200_OK, [name |-> "Account REST API Service", version |-> "1.0"],
           None, table, seq, <<>>)

\* create_accounts that creates the account whatever deserialize said
create_accounts_ignore_invalid(req, table, seq, today) ==
    IF req.content_type # "application/json"
    THEN UnsupportedMediaType("application/json", table, seq)
    ELSE
        LET d == deserialize(NewAccount, req.body, today)
            c == create(table, seq, d.account)
        IN  Result(HTTP_201_CREATED, serialize(c.account), "/", c.rows, c.id_seq,
                   <<"request.get_json", "Account.deserialize",
                     "Account.create", "Account.serialize">>)

\* create_accounts that never calls account.create()
create_accounts_no_create(req, table, seq, today) ==
    IF req.content_type # "application/json"
    THEN UnsupportedMediaType("application/json", table, seq)
    ELSE IF req.body.kind = "malformed"
    THEN abort(HTTP_400_BAD_REQUEST, "Bad Request", table, seq, <<"request.get_json">>)
    ELSE
        LET d == deserialize(NewAccount, req.body, today)
        IN  IF ~d.ok
            THEN abort(HTTP_400_BAD_REQUEST, d.error, table, seq,
                       <<"request.get_json", "Account.deserialize">>)
            ELSE Result(HTTP_201_CREATED, serialize(d.account), "/", table, seq,
                        <<"request.get_json", "Account.deserialize",
                          "Account.serialize">>)

\* create_accounts that calls account.create() before account.deserialize()
create_accounts_create_first(req, table, seq, today) ==
    IF req.content_type # "application/json"
    THEN UnsupportedMediaType("application/json", table, seq)
    ELSE
        LET c == create(table, seq, NewAccount)
            d == deserialize(c.account, req.body, today)
        IN  IF req.body.kind = "malformed" \/ ~d.ok
            THEN abort(HTTP_400_BAD_REQUEST, "Bad Request", c.rows, c.id_seq,
                       <<"Account.create", "request.get_json", "Account.deserialize">>)
            ELSE Result(HTTP_201_CREATED, serialize(d.account), "/", c.rows, c.id_seq,
                        <<"Account.create", "request.get_json",
                          "Account.deserialize", "Account.serialize">>)

\* POST /accounts
create_accounts(req, table, seq, today) ==
    IF ~check_content_type(req, "application/json")
    THEN UnsupportedMediaType("application/json", table, seq)
    ELSE IF get_json_fails(req)
    THEN abort(HTTP_400_BAD_REQUEST, "Bad Request", table, seq, <<"request.get_json">>)
    ELSE
        LET d == deserialize(NewAccount, req.body, today)
        IN  IF ~d.ok
            THEN abort(HTTP_400_BAD_REQUEST, d.error, table, seq,
                       <<"request.get_json", "Account.deserialize">>)
            ELSE
                LET c == create(table, seq, d.account)
                IN  Result(HTTP_201_CREATED, serialize(c.account), "/",
                           c.rows, c.id_seq,
                           <<"request.get_json", "Account.deserialize",
                             "Account.create", "Account.serialize">>)

\* read_account that does not abort when nothing is found
read_account_no_abort(req, table, seq) ==
    LET f == find(table, req.path[2])
    IN  Result(HTTP_200_OK, serialize(f.account), None, table, seq,
               <<"Account.find", "Account.serialize">>)

\* GET /accounts/<int:id>
read_account(req, table, seq) ==
    LET f == find(table, req.path[2])
    IN  IF ~f.found
        THEN abort(HTTP_404_NOT_FOUND, NotFoundMessage(req.path[2]), table, seq,
                   <<"Account.find">>)
        ELSE Result(HTTP_200_OK, serialize(f.account), None, table, seq,
                    <<"Account.find", "Account.serialize">>)

\* update_products that inserts the account when the id is not found
update_products_upsert(req, table, seq, today) ==
    IF req.content_type # "application/json"
    THEN UnsupportedMediaType("application/json", table, seq)
    ELSE
        LET f == find(table, req.path[2])
            d == deserialize(f.account, req.body, today)
        IN  IF req.body.kind = "malformed" \/ ~d.ok
            THEN abort(HTTP_400_BAD_REQUEST, "Bad Request", table, seq,
                       <<"Account.find", "request.get_json", "Account.deserialize">>)
            ELSE
                LET account == [d.account EXCEPT !.id = req.path[2]]
                IN  Result(HTTP_200_OK, serialize(account), None,
                           [i \in DOMAIN table \cup {account.id} |->
                               IF i = account.id THEN Fields(account) ELSE table[i]],
                           seq,
                           <<"Account.find", "request.get_json",
                             "Account.deserialize", "Account.update",
                             "Account.serialize">>)

\* update_products that takes the id of the account from the body
update_products_body_id(req, table, seq, today) ==
    IF req.content_type # "application/json"
    THEN UnsupportedMediaType("application/json", table, seq)
    ELSE
        LET f == find(table, req.path[2])
            d == deserialize(f.account, req.body, today)
        IN  IF ~f.found
            THEN abort(HTTP_404_NOT_FOUND, NotFoundMessage(req.path[2]), table, seq,
                       <<"Account.find">>)
            ELSE IF req.body.kind = "malformed" \/ ~d.ok
            THEN abort(HTTP_400_BAD_REQUEST, "Bad Request", table, seq,
                       <<"Account.find", "request.get_json", "Account.deserialize">>)
            ELSE
                LET account ==
                        [d.account EXCEPT
                            !.id = IF req.body.id = <<>> THEN req.path[2]
                                   ELSE req.body.id[1]]
                    u == update(table, account)
                IN  Result(IF u.ok THEN HTTP_200_OK ELSE 500,
                           serialize(account), None, u.rows, seq,
                           <<"Account.find", "request.get_json",
                             "Account.deserialize", "Account.update",
                             "Account.serialize">>)

\* PUT /accounts/<int:id>
update_products(req, table, seq, today) ==
    IF ~check_content_type(req, "application/json")
    THEN UnsupportedMediaType("application/json", table, seq)
    ELSE
        LET f == find(table, req.path[2])
        IN  IF ~f.found
            THEN abort(HTTP_404_NOT_FOUND, NotFoundMessage(req.path[2]), table, seq,
                       <<"Account.find">>)
            ELSE IF get_json_fails(req)
            THEN abort(HTTP_400_BAD_REQUEST, "Bad Request", table, seq,
                       <<"Account.find", "request.get_json">>)
            ELSE
                LET d == deserialize(f.account, req.body, today)
                IN  IF ~d.ok
                    THEN abort(HTTP_400_BAD_REQUEST, d.error, table, seq,
                               <<"Account.find", "request.get_json",
                                 "Account.deserialize">>)
                    ELSE
                        LET account == [d.account EXCEPT !.id = req.path[2]]
                            u == update(table, account)
                        IN  IF ~u.ok
                            THEN abort(500,
                                       "Internal Server Error", table, seq,
                                       <<"Account.find", "request.get_json",
                                         "Account.deserialize", "Account.update">>)
                            ELSE Result(HTTP_200_OK, serialize(account), None,
                                        u.rows, seq,
                                        <<"Account.find", "request.get_json",
                                          "Account.deserialize", "Account.update",
                                          "Account.serialize">>)

----------------------------------------------------------------------------
(* Routing: the rules the @app.route decorators register *)

Rule(path) ==
    IF path = <<>> THEN "/"
    ELSE IF path = <<"health">> THEN "/health"
    ELSE IF path = <<"accounts">> THEN "/accounts"
    ELSE "/accounts/<int:id>"

url_map ==
    {[rule |-> "/health", methods |-> {"GET"}, endpoint |-> "health"],
     [rule |-> "/", methods |-> {"GET"}, endpoint |-> "index"],
     [rule |-> "/accounts", methods |-> {"POST"}, endpoint |-> "create_accounts"],
     [rule |-> "/accounts/<int:id>", methods |-> {"GET"}, endpoint |-> "read_account"],
     [rule |-> "/accounts/<int:id>", methods |-> {"PUT"}, endpoint |-> "update_products"]}

\* the endpoint a request is dispatched to; a rule that matches the path under
\* other methods only answers 405 Method Not Allowed
Endpoint(req) ==
    IF \E r \in url_map : r.rule = Rule(req.path) /\ req.method \in r.methods
    THEN (CHOOSE r \in url_map : r.rule = Rule(req.path) /\ req.method \in r.methods).endpoint
    ELSE "method_not_allowed"

method_not_allowed(table, seq) ==
    abort(405, "Method Not Allowed", table, seq, <<>>)

----------------------------------------------------------------------------
(* Requests and responses *)

Paths == {<<>>, <<"health">>, <<"accounts">>} \cup {<<"accounts", i>> : i \in PathIds}

\* the requests to the two routes that write carry a content type and a body;
\* every other pair of a method and a path comes without them
Requests ==
    [method : {"POST"}, path : {<<"accounts">>}, content_type : ContentTypes, body : Bodies]
    \cup [method : {"PUT"}, path : {<<"accounts", i>> : i \in PathIds},
          content_type : ContentTypes, body : Bodies]
    \cup [method : Methods, path : Paths, content_type : {None}, body : {NoBody}]

NoRequest == [method |-> "none", path |-> <<>>, content_type |-> None, body |-> NoBody]

\* the security headers with framing denied instead of same-origin, and no
\* referrer policy
SecurityHeaders_misconfigured ==
    {<<"X-Frame-Options", "DENY">>,
     <<"X-Content-Type-Options", "nosniff">>,
     <<"Content-Security-Policy", "default-src 'self'; object-src 'none'">>}

\* the headers flask-talisman puts on every response
SecurityHeaders ==
    {<<"X-Frame-Options", "SAMEORIGIN">>,
     <<"X-Content-Type-Options", "nosniff">>,
     <<"Content-Security-Policy", "default-src 'self'; object-src 'none'">>,
     <<"Referrer-Policy", "strict-origin-when-cross-origin">>}

\* after_request that leaves the security headers off the error responses
after_request_success_only(result) ==
    [status |-> result.status,
     body |-> result.body,
     headers |-> (IF result.status >= HTTP_400_BAD_REQUEST THEN {} ELSE SecurityHeaders) \cup
                 (IF result.location = None THEN {} ELSE {<<"Location", result.location>>}),
     calls |-> result.calls]

\* the response that leaves the application for a handler's result
after_request(result) ==
    [status |-> result.status,
     body |-> result.body,
     headers |-> SecurityHeaders \cup
                 (IF result.location = None THEN {} ELSE {<<"Location", result.location>>}),
     calls |-> result.calls]

NoResponse == [status |-> 0, body |-> [empty |-> TRUE], headers |-> {}, calls |-> <<>>]

----------------------------------------------------------------------------
(* The state machine *)

Init ==
    /\ rows = <<>>
    /\ id_seq = 0
    /\ force_https = TRUE
    /\ request = NoRequest
    /\ response = NoResponse

\* the application is between two requests
Idle == request = NoRequest

\* the handler's result becomes the state and the response
Respond(req, result) ==
    /\ request' = req
    /\ response' = after_request(result)
    /\ rows' = result.rows
    /\ id_seq' = result.id_seq
    /\ UNCHANGED force_https

Health ==
    /\ Idle
    /\ \E req \in Requests :
        /\ Endpoint(req) = "health"
        /\ Respond(req, health(rows, id_seq))

Index ==
    /\ Idle
    /\ \E req \in Requests :
        /\ Endpoint(req) = "index"
        /\ Respond(req, index(rows, id_seq))

CreateAccounts ==
    /\ Idle
    /\ \E req \in Requests, today \in Dates :
        /\ Endpoint(req) = "create_accounts"
        /\ LET result == create_accounts(req, rows, id_seq, today)
           IN  /\ result.id_seq <= MaxAccounts
               /\ Respond(req, result)

ReadAccount ==
    /\ Idle
    /\ \E req \in Requests :
        /\ Endpoint(req) = "read_account"
        /\ Respond(req, read_account(req, rows, id_seq))

UpdateProducts ==
    /\ Idle
    /\ \E req \in Requests, today \in Dates :
        /\ Endpoint(req) = "update_products"
        /\ Respond(req, update_products(req, rows, id_seq, today))

\* a method the matching rule does not allow: GET /accounts, DELETE /accounts/<id>, ...
MethodNotAllowed ==
    /\ Idle
    /\ \E req \in Requests :
        /\ Endpoint(req) = "method_not_allowed"
        /\ Respond(req, method_not_allowed(rows, id_seq))

\* the response is delivered and the request is over
Complete ==
    /\ ~Idle
    /\ request' = NoRequest
    /\ response' = NoResponse
    /\ UNCHANGED <<rows, id_seq, force_https>>

\* talisman.force_https is switched between two requests
SetForceHttps ==
    /\ Idle
    /\ force_https' = ~force_https
    /\ UNCHANGED <<rows, id_seq, request, response>>

Next ==
    \/ Health
    \/ Index
    \/ CreateAccounts
    \/ ReadAccount
    \/ UpdateProducts
    \/ MethodNotAllowed
    \/ Complete
    \/ SetForceHttps

Spec == Init /\ [][Next]_vars

----------------------------------------------------------------------------
(* Vocabulary of the properties *)

\* the request handled last went to this endpoint
Routed(req, endpoint) == req.method # "none" /\ Endpoint(req) = endpoint

\* the body is a JSON object that carries every required field
ValidBody(body) ==
    /\ body.kind = "object"
    /\ body.name # Absent
    /\ body.email # Absent
    /\ body.address # Absent

\* the account a response body shows equals what the body of the request submitted:
\* the phone number is null when none was sent, the date is a date of the
\* calendar when none was sent
ShowsSubmitted(shown, body) ==
    /\ shown.name = body.name
    /\ shown.email = body.email
    /\ shown.address = body.address
    /\ shown.phone_number = (IF body.phone_number = Absent THEN None ELSE body.phone_number)
    /\ IF body.date_joined = Absent
       THEN shown.date_joined \in IsoStrings
       ELSE shown.date_joined = body.date_joined

\* the row holds the account that a response body shows
Stores(row, shown) ==
    /\ row.name = shown.name
    /\ row.email = shown.email
    /\ row.address = shown.address
    /\ row.phone_number = shown.phone_number
    /\ isoformat(row.date_joined) = shown.date_joined

----------------------------------------------------------------------------
(* C1: GET /accounts returns 200 with exactly one item per stored account. *)
(* The route file registers /accounts for POST only, so the request is     *)
(* answered 405: the statement below is the claim, and it is violated.     *)
C1_ListReturnsEveryAccount ==
    (request.method = "GET" /\ request.path = <<"accounts">>)
        => /\ response.status = HTTP_200_OK
           /\ response.body = [items |-> {serialize(Entity(rows[i], i)) : i \in DOMAIN rows}]

(* C2: DELETE /accounts/{id} returns 204 and the account is gone afterwards. *)
(* No route allows DELETE, so the request is answered 405 and the row        *)
(* stays: the statement below is the claim, and it is violated.              *)
C2_DeleteRemovesAccount ==
    (request.method = "DELETE" /\ Rule(request.path) = "/accounts/<int:id>")
        => /\ response.status = HTTP_204_NO_CONTENT
           /\ request.path[2] \notin DOMAIN rows

(* C3: on POST /accounts and PUT /accounts/{id}, a Content-Type that is     *)
(* absent or is not exactly application/json yields 415, whatever the body *)
(* and, for PUT, whether or not the id exists; nothing is parsed or looked *)
(* up before the check, and the stored accounts are unchanged.             *)
C3_WrongContentTypeIs415 ==
    [][((Routed(request', "create_accounts") \/ Routed(request', "update_products"))
            /\ request'.content_type # "application/json")
        => /\ response'.status = HTTP_415_UNSUPPORTED_MEDIA_TYPE
           /\ response'.body = [message |-> "Content-Type must be application/json"]
           /\ response'.calls = <<>>
           /\ rows' = rows
           /\ id_seq' = id_seq]_vars

\* a PUT without a Content-Type, with a valid body, to an id that is not stored,
\* was answered 415 while an account is stored
C3_Witness ==
    /\ Routed(request, "update_products")
    /\ request.content_type = None
    /\ ValidBody(request.body)
    /\ request.path[2] \notin DOMAIN rows
    /\ rows # <<>>
    /\ response.status = HTTP_415_UNSUPPORTED_MEDIA_TYPE

(* C4: POST /accounts as application/json with a JSON object that lacks    *)
(* name, email or address yields 400, and no account is added.             *)
C4_MissingFieldIs400 ==
    [][(/\ Routed(request', "create_accounts")
        /\ request'.content_type = "application/json"
        /\ request'.body.kind = "object"
        /\ ~ValidBody(request'.body))
        => /\ response'.status = HTTP_400_BAD_REQUEST
           /\ rows' = rows
           /\ id_seq' = id_seq]_vars

\* the body {"name": ...} alone was answered 400
C4_Witness ==
    /\ Routed(request, "create_accounts")
    /\ request.content_type = "application/json"
    /\ request.body.kind = "object"
    /\ request.body.name # Absent
    /\ request.body.email = Absent
    /\ request.body.address = Absent
    /\ response.status = HTTP_400_BAD_REQUEST
    /\ rows # <<>>

(* C5: PUT /accounts/{id} with a valid JSON body (sent as application/json) *)
(* for an id that is not stored yields 404, and the stored accounts are the *)
(* same before and after: no row is created.                                *)
C5_UpdateMissingIs404 ==
    [][(/\ Routed(request', "update_products")
        /\ request'.content_type = "application/json"
        /\ ValidBody(request'.body)
        /\ request'.path[2] \notin DOMAIN rows)
        => /\ response'.status = HTTP_404_NOT_FOUND
           /\ rows' = rows
           /\ id_seq' = id_seq]_vars

\* a valid PUT to an id above 0 that is not stored was answered 404 while
\* another account is stored
C5_Witness ==
    /\ Routed(request, "update_products")
    /\ request.content_type = "application/json"
    /\ ValidBody(request.body)
    /\ request.path[2] > 0
    /\ request.path[2] \notin DOMAIN rows
    /\ rows # <<>>
    /\ response.status = HTTP_404_NOT_FOUND

(* C6: PUT /accounts/{id} with a valid JSON body (sent as application/json) *)
(* for a stored id returns 200 with the updated account, stores the         *)
(* submitted values under that id, keeps the id of the path even when the   *)
(* body carries another id, and changes no other stored account.            *)
C6_UpdateStoresUnderPathId ==
    [][(/\ Routed(request', "update_products")
        /\ request'.content_type = "application/json"
        /\ ValidBody(request'.body)
        /\ request'.path[2] \in DOMAIN rows)
        => /\ response'.status = HTTP_200_OK
           /\ response'.body.id = request'.path[2]
           /\ ShowsSubmitted(response'.body, request'.body)
           /\ DOMAIN rows' = DOMAIN rows
           /\ Stores(rows'[request'.path[2]], response'.body)
           /\ \A i \in DOMAIN rows : i # request'.path[2] => rows'[i] = rows[i]
           /\ id_seq' = id_seq]_vars

\* account 2 was updated by a body that carries the id 1, with values that
\* differ from those of account 1
C6_Witness ==
    /\ Routed(request, "update_products")
    /\ request.path[2] = 2
    /\ request.body.id = <<1>>
    /\ response.status = HTTP_200_OK
    /\ response.body.id = 2
    /\ DOMAIN rows = {1, 2}
    /\ rows[1] # rows[2]

(* C7: GET /accounts/{id} returns 200 with the stored fields of the account *)
(* if and only if an account with that id is stored; otherwise it returns   *)
(* 404 with the message "Account with id '<id>' was not found."; the        *)
(* request never changes the store.                                         *)
C7_ReadReturnsStoredOr404 ==
    [][Routed(request', "read_account")
        => /\ rows' = rows
           /\ id_seq' = id_seq
           /\ (response'.status = HTTP_200_OK) <=> (request'.path[2] \in DOMAIN rows)
           /\ IF request'.path[2] \in DOMAIN rows
              THEN /\ response'.body.id = request'.path[2]
                   /\ Stores(rows[request'.path[2]], response'.body)
              ELSE /\ response'.status = HTTP_404_NOT_FOUND
                   /\ response'.body =
                        [message |-> "Account with id '" \o ToString(request'.path[2])
                                      \o "' was not found."]]_vars

\* account 2, with a phone number, was read while account 1 has none
C7_Witness ==
    /\ Routed(request, "read_account")
    /\ request.path[2] = 2
    /\ response.status = HTTP_200_OK
    /\ response.body.phone_number \in Phones
    /\ rows[1].phone_number = None

(* C8: POST /accounts as application/json with a valid body returns 201    *)
(* with a Location header and the created account: the returned fields     *)
(* equal the submitted ones, and the returned id is a new one, under which *)
(* the account is stored, so that no stored account is replaced and ids    *)
(* stay unique.                                                            *)
C8_CreateReturnsNewAccount ==
    [][(/\ Routed(request', "create_accounts")
        /\ request'.content_type = "application/json"
        /\ ValidBody(request'.body))
        => /\ response'.status = HTTP_201_CREATED
           /\ \E h \in response'.headers : h[1] = "Location"
           /\ Cardinality(DOMAIN rows') = Cardinality(DOMAIN rows) + 1
           /\ ShowsSubmitted(response'.body, request'.body)
           /\ response'.body.id \notin DOMAIN rows
           /\ DOMAIN rows' = DOMAIN rows \cup {response'.body.id}
           /\ Stores(rows'[response'.body.id], response'.body)
           /\ \A i \in DOMAIN rows : rows'[i] = rows[i]]_vars

\* a second account was created with a submitted phone number and date
C8_Witness ==
    /\ Routed(request, "create_accounts")
    /\ response.status = HTTP_201_CREATED
    /\ request.body.phone_number \in Phones
    /\ request.body.date_joined \in IsoStrings
    /\ response.body.id = 2
    /\ DOMAIN rows = {1, 2}

Called == {response.calls[k] : k \in 1 .. Len(response.calls)}

(* C10, as stated: in POST /accounts and PUT /accounts/{id}, a 400 and a   *)
(* 415 are reported before any call reaches the persistence layer, the     *)
(* lookup by id included; a 404 is reported after the lookup and before    *)
(* any mutating call.  PUT looks the id up before it reads the body, so a  *)
(* 400 of PUT comes after Account.find: the statement is violated.         *)
C10_ErrorsBeforePersistence ==
    (Routed(request, "create_accounts") \/ Routed(request, "update_products"))
        => /\ response.status \in {HTTP_400_BAD_REQUEST, HTTP_415_UNSUPPORTED_MEDIA_TYPE}
                => Called \cap PersistenceCalls = {}
           /\ response.status = HTTP_404_NOT_FOUND
                => /\ "Account.find" \in Called
                   /\ Called \cap MutatingCalls = {}

(* C10, amended: a 415 of POST or PUT is reported before any other call;   *)
(* a 400 of POST is reported before any call reaches the persistence       *)
(* layer; a 400 of PUT is reported after the lookup by id, which is its    *)
(* first call, and before any call that writes to the store; a 404 is      *)
(* reported right after the lookup, before the body is parsed and before   *)
(* any mutating call.                                                      *)
C10_ErrorsBeforeWrites ==
    (Routed(request, "create_accounts") \/ Routed(request, "update_products"))
        => /\ response.status = HTTP_415_UNSUPPORTED_MEDIA_TYPE
                => response.calls = <<>>
           /\ (response.status = HTTP_400_BAD_REQUEST /\ Routed(request, "create_accounts"))
                => Called \cap PersistenceCalls = {}
           /\ (response.status = HTTP_400_BAD_REQUEST /\ Routed(request, "update_products"))
                => /\ response.calls[1] = "Account.find"
                   /\ Called \cap PersistenceCalls = {"Account.find"}
           /\ response.status = HTTP_404_NOT_FOUND
                => response.calls = <<"Account.find">>

\* a PUT to a stored id with a body that lacks a field was answered 400
\* after the lookup
C10_Witness ==
    /\ Routed(request, "update_products")
    /\ request.content_type = "application/json"
    /\ request.body.kind = "object"
    /\ ~ValidBody(request.body)
    /\ request.path[2] \in DOMAIN rows
    /\ response.status = HTTP_400_BAD_REQUEST
    /\ response.calls[1] = "Account.find"

====
